---- MODULE Spec2Model ----
(***************************************************************************)
(* Model of the thrift client pool of src/clientpool.go                    *)
(* (ChannelClientPool and pooledClient).                                   *)
(*                                                                         *)
(* Goroutines call Get, pooledClient.MarkUnusable, pooledClient.Close,     *)
(* ChannelClientPool.Close and Size concurrently.  A step is one access to *)
(* the pool's shared state: a critical section of pool.mu, an atomic       *)
(* operation on pool.opened, or a transport's Close, each together with    *)
(* the statements around it that touch nothing shared (a socket's Open, a  *)
(* receive from the channel that ChannelClientPool.Close alone still       *)
(* holds).  Goroutines have no identity: the calls in progress form a bag. *)
(* Callers follow the usage shown in src/README.md: a handle is used by    *)
(* one goroutine at a time, is marked unusable only before its Close, and  *)
(* is closed once, after which the caller has dropped it.                  *)
(*                                                                         *)
(* Spec is this pool under that usage.  SpecDoubleClose adds a caller that *)
(* closes a handle twice.  FairSpec follows one call under fair scheduling *)
(* of its goroutine.  SpecPart001 is the second ChannelClientPool, that of *)
(* src/unnamed/part_001, on the same variables.                            *)
(***************************************************************************)
EXTENDS Integers, Sequences, FiniteSets, Bags, TLC

\* ---------------------------------------------------------------- bounds
NumGoroutines == 2  \* calls that may be in progress at once
MaxHandles == 2     \* Get is called while fewer handles than this were made
MaxIdleCfg == 2     \* maxIdle is drawn from 0..MaxIdleCfg
MaxOpenCfg == 1     \* maxOpen is drawn from 0..MaxOpenCfg

\* ------------------------------------------------------ values of the code
\* The nil Client (an interface holding nothing); connections are 1, 2, ...
Nil == 0

\* Errors are pairs <<name, connection>>; the connection is 0 except for the
\* error a transport's Close returns, which belongs to that transport.
ErrNone == <<"nil", 0>>
ErrPoolClosed == <<"ErrPoolClosed", 0>>
ErrPoolMaxOpenReached == <<"ErrPoolMaxOpenReached", 0>>
ErrClientMissingTransportField == <<"ErrClientMissingTransportField", 0>>
ErrClientNilTransportField == <<"ErrClientNilTransportField", 0>>
errNoPooledClient == <<"errNoPooledClient", 0>>
ErrDial == <<"dial error", 0>>
ErrTransportClose(c) == <<"transport close error", c>>

\* What the ClientFactory of a pool returns: clients whose Transport field
\* holds a transport, or clients that lack the field or hold nil in it.
FactoryKinds == {"transport", "malformed"}

\* ------------------------------------------------------------ uint32
\* A uint32 is kept as the int32 with the same 32 bits: 0 .. 2^31-1 are
\* themselves, and 2^32 - k is -k.  So ^uint32(0) = 2^32-1 is -1.
MaxInt32 == 2147483647
MinInt32 == (-MaxInt32) - 1

\* atomic.AddUint32(&x, delta) for delta in {1, ^uint32(0)}: x + delta mod 2^32
AddUint32(x, delta) ==
    IF delta = 1 /\ x = MaxInt32 THEN MinInt32
    ELSE IF delta = -1 /\ x = MinInt32 THEN MaxInt32
    ELSE x + delta

\* a >= b on uint32
GeqUint32(a, b) ==
    IF (a >= 0) = (b >= 0) THEN a >= b ELSE a < 0

VARIABLES
    maxIdle,      \* pool.maxIdle: capacity of the channel
    maxOpen,      \* pool.maxOpen: 0 is unbounded
    factoryKind,  \* what pool.clientFactory builds
    clients,      \* the buffered contents of the channel made by the constructor
    clientsNil,   \* pool.clients == nil
    opened,       \* pool.opened
    sockets,      \* per dialed connection: its transport and where the client is
    handles,      \* the bag of pooledClient objects that callers hold
    created,      \* how many pooledClient objects Get has made
    calls,        \* the bag of calls in progress: position and locals of each
    ret           \* the call that returned in the last step, if one did

vars == <<maxIdle, maxOpen, factoryKind, clients, clientsNil, opened,
          sockets, handles, created, calls, ret>>

cfgVars == <<maxIdle, maxOpen, factoryKind>>

\* ---------------------------------------------------------- channel ops
\* select { case ch <- v: ... default: } on a channel of capacity cap whose
\* receivers never block: the send succeeds iff the buffer has room.
chanSendUnbounded(ch, cap, v) == [ok |-> TRUE, ch |-> Append(ch, v)]
chanSend(ch, cap, v) ==
    IF Len(ch) < cap THEN [ok |-> TRUE, ch |-> Append(ch, v)]
    ELSE [ok |-> FALSE, ch |-> ch]

\* select { case v := <-ch: ... default: }; a nil channel is never ready.
chanRecv(isNil, ch) ==
    IF isNil \/ ch = <<>> THEN [ok |-> FALSE, v |-> Nil, ch |-> ch]
    ELSE [ok |-> TRUE, v |-> Head(ch), ch |-> Tail(ch)]

\* len(ch); len of a nil channel is 0
chanLenOfBuffer(isNil, ch) == Len(ch)
chanLen(isNil, ch) == IF isNil THEN 0 ELSE Len(ch)

\* ------------------------------------------------------------- records
\* &pooledClient{Client: rawCli, pool: pool}
NewHandle(rawCli) == [Client |-> rawCli, unusable |-> FALSE, closeCalls |-> 0]

\* where a call has no pooledClient
NoHandle == NewHandle(Nil)

\* a socket that socket.Open() has just connected; state says where its
\* client is: "out" (with a caller or a call), "idle" (in a channel buffer),
\* "down" (closeClient has been called on it)
NewSocket == [open |-> TRUE, closeCalls |-> 0, state |-> "out"]

\* The shared state a step starts from, kept for the call that returns in it.
Pre ==
    [opened |-> opened, clients |-> clients, clientsNil |-> clientsNil,
     sockets |-> Len(sockets), created |-> created]

NoPre ==
    [opened |-> 0, clients |-> <<>>, clientsNil |-> FALSE, sockets |-> 0,
     created |-> 0]

\* A call in progress.  pc is where it is; h (the pooledClient), cli (the raw
\* client), err (Close's err) are the code's locals, caller is who called
\* closeClient.  The rest records what the call met: sawNil (pool.clients
\* was nil when the call read it), sawIdle (getFromPool ran on an open pool
\* with a client in the buffer), sawFull (the ceiling test ran with
\* opened >= maxOpen != 0), room (closePooledClient began with the pool open
\* and room in the buffer), pushed (its send succeeded), dec (by how much closeClient lowered opened), snap and log
\* (what Close swapped out, and the clients it tore down with their errors);
\* tracked marks the one call whose progress is being followed.
NoCall ==
    [pc |-> "none", h |-> NoHandle, cli |-> Nil, err |-> ErrNone,
     caller |-> "none", sawNil |-> FALSE, sawIdle |-> FALSE, sawFull |-> FALSE,
     room |-> FALSE, pushed |-> FALSE, dec |-> 0, snap |-> <<>>, log |-> <<>>,
     tracked |-> FALSE]

\* What the call that just returned gave back (err, h, n) and did.
NoRet ==
    [op |-> "none", err |-> ErrNone, h |-> NoHandle, cli |-> Nil, n |-> 0,
     reused |-> FALSE, dialed |-> FALSE, pushed |-> FALSE, tornDown |-> FALSE,
     dec |-> 0, room |-> FALSE, sawNil |-> FALSE, sawIdle |-> FALSE,
     sawFull |-> FALSE, snap |-> <<>>, log |-> <<>>, pre |-> NoPre]

Running == BagToSet(calls)

\* the handles callers hold and may use
Held == BagToSet(handles)

\* Get calls in progress
GetsInFlight ==
    LET gets == {c \in Running : c.pc \in {"openClient", "dialed"}}
    IN  BagCardinality([c \in gets |-> calls[c]])

\* a goroutine is free to make a call
Free == BagCardinality(calls) < NumGoroutines

\* the call c goes on as d; a new call d begins; the call c returns r; a call
\* that takes one step returns r
Goto(c, d) == calls' = (calls (-) SetToBag({c})) (+) SetToBag({d}) /\ ret' = NoRet
Begin(d) == calls' = calls (+) SetToBag({d}) /\ ret' = NoRet
Return(c, r) == calls' = calls (-) SetToBag({c}) /\ ret' = [r EXCEPT !.pre = Pre]
ReturnAtOnce(r) == calls' = calls /\ ret' = [r EXCEPT !.pre = Pre]

\* ------------------------------------------------------------ NewChannelClientPool
Init ==
    /\ maxIdle \in 0..MaxIdleCfg
    /\ maxOpen \in 0..MaxOpenCfg
    /\ factoryKind \in FactoryKinds
    /\ clients = <<>>
    /\ clientsNil = FALSE
    /\ opened = 0
    /\ sockets = <<>>
    /\ handles = EmptyBag
    /\ created = 0
    /\ calls = EmptyBag
    /\ ret = NoRet

\* ------------------------------------------------------------------- Get
\* the body of getFromPool
getFromPoolOnNil(isNil, ch) ==
    LET r == chanRecv(isNil, ch)
    IN  IF r.ok THEN [rawCli |-> r.v, err |-> ErrNone, ch |-> r.ch]
        ELSE [rawCli |-> Nil, err |-> errNoPooledClient, ch |-> ch]
getFromPoolSkipsIdle(isNil, ch) ==
    IF isNil THEN [rawCli |-> Nil, err |-> ErrPoolClosed, ch |-> ch]
    ELSE [rawCli |-> Nil, err |-> errNoPooledClient, ch |-> ch]
getFromPool(isNil, ch) ==
    IF isNil THEN [rawCli |-> Nil, err |-> ErrPoolClosed, ch |-> ch]
    ELSE LET r == chanRecv(isNil, ch)
         IN  IF r.ok THEN [rawCli |-> r.v, err |-> ErrNone, ch |-> r.ch]
             ELSE [rawCli |-> Nil, err |-> errNoPooledClient, ch |-> ch]

\* pool.maxOpen != 0 && atomic.LoadUint32(&pool.opened) >= pool.maxOpen
maxOpenReachedStrict(max, n) == max # 0 /\ n # max /\ GeqUint32(n, max)
maxOpenReached(max, n) == max # 0 /\ GeqUint32(n, max)

\* Get: getFromPool under pool.mu, and what Get does with its result
Get ==
    /\ Free
    /\ created + GetsInFlight < MaxHandles
    /\ LET r == getFromPool(clientsNil, clients)
           met == [NoRet EXCEPT !.op = "Get", !.sawNil = clientsNil,
                                !.sawIdle = ~clientsNil /\ clients # <<>>]
       IN  /\ clients' = r.ch
           /\ IF r.err = ErrPoolClosed
              THEN /\ ReturnAtOnce([met EXCEPT !.err = r.err])
                   /\ UNCHANGED <<handles, created, sockets>>
              ELSE IF r.rawCli # Nil
              THEN /\ handles' = handles (+) SetToBag({NewHandle(r.rawCli)})
                   /\ created' = created + 1
                   /\ sockets' = [sockets EXCEPT ![r.rawCli].state = "out"]
                   /\ ReturnAtOnce([met EXCEPT !.err = r.err,
                                               !.h = NewHandle(r.rawCli),
                                               !.cli = r.rawCli, !.reused = TRUE])
              ELSE /\ Begin([NoCall EXCEPT !.pc = "openClient",
                                           !.sawNil = met.sawNil,
                                           !.sawIdle = met.sawIdle])
                   /\ UNCHANGED <<handles, created, sockets>>
    /\ UNCHANGED <<cfgVars, clientsNil, opened>>

\* what a Get that went on to openClient returns
GetRet(c) ==
    [NoRet EXCEPT !.op = "Get", !.sawNil = c.sawNil, !.sawIdle = c.sawIdle,
                  !.sawFull = maxOpen # 0 /\ opened >= maxOpen]

\* openClient: the ceiling is reached
openClient_check(c) ==
    /\ c.pc = "openClient"
    /\ maxOpenReached(maxOpen, opened)
    /\ Return(c, [GetRet(c) EXCEPT !.err = ErrPoolMaxOpenReached])
    /\ UNCHANGED <<cfgVars, clients, clientsNil, opened, sockets, handles, created>>

\* openClient: the ceiling is not reached; thrift.NewTSocket or socket.Open fails
openClient_dialFailsCounted(c) ==
    /\ c.pc = "openClient"
    /\ ~maxOpenReached(maxOpen, opened)
    /\ opened' = IF maxOpen # 0 THEN AddUint32(opened, 1) ELSE opened
    /\ Return(c, [GetRet(c) EXCEPT !.err = ErrDial])
    /\ UNCHANGED <<cfgVars, clients, clientsNil, sockets, handles, created>>
openClient_dialFails(c) ==
    /\ c.pc = "openClient"
    /\ ~maxOpenReached(maxOpen, opened)
    /\ Return(c, [GetRet(c) EXCEPT !.err = ErrDial])
    /\ UNCHANGED <<cfgVars, clients, clientsNil, opened, sockets, handles, created>>

\* openClient: the ceiling is not reached; socket.Open succeeds
openClient_dial(c) ==
    /\ c.pc = "openClient"
    /\ ~maxOpenReached(maxOpen, opened)
    /\ sockets' = Append(sockets, NewSocket)
    /\ Goto(c, [c EXCEPT !.pc = "dialed", !.cli = Len(sockets) + 1,
                         !.sawFull = maxOpen # 0 /\ opened >= maxOpen])
    /\ UNCHANGED <<cfgVars, clients, clientsNil, opened, handles, created>>

\* openClient: the increment and the factory; Get wraps the client
openClient_incr(c) ==
    /\ c.pc = "dialed"
    /\ opened' = IF maxOpen # 0 THEN AddUint32(opened, 1) ELSE opened
    /\ handles' = handles (+) SetToBag({NewHandle(c.cli)})
    /\ created' = created + 1
    /\ Return(c, [GetRet(c) EXCEPT !.err = ErrNone, !.h = NewHandle(c.cli),
                                   !.cli = c.cli, !.dialed = TRUE,
                                   !.sawFull = c.sawFull])
    /\ UNCHANGED <<cfgVars, clients, clientsNil, sockets>>

\* ---------------------------------------------------------- MarkUnusable
MarkUnusable(h) ==
    /\ Free
    /\ h.closeCalls = 0
    /\ ~h.unusable
    /\ handles' = (handles (-) SetToBag({h}))
                       (+) SetToBag({[h EXCEPT !.unusable = TRUE]})
    /\ ret' = NoRet
    /\ UNCHANGED <<cfgVars, clients, clientsNil, opened, sockets, created, calls>>

\* ------------------------------------------------------------ closeClient
\* if pool.maxOpen != 0 { atomic.AddUint32(&pool.opened, ^uint32(0)) }
decOpenedNever(max, n) == n
decOpenedAlways(max, n) == AddUint32(n, -1)
decOpened(max, n) == IF max # 0 THEN AddUint32(n, -1) ELSE n

\* closeClient on a client that is not nil, up to the decrement of opened
closeClient_dec(cli) ==
    /\ opened' = decOpened(maxOpen, opened)
    /\ sockets' = [sockets EXCEPT ![cli].state = "down"]

\* the call c after closeClient_dec
Reflect(c) ==
    [c EXCEPT !.pc = "reflect", !.dec = opened - decOpened(maxOpen, opened)]

\* if err == nil { err = curErr }
lastErr(err, curErr) == IF curErr # ErrNone THEN curErr ELSE err
firstErr(err, curErr) == IF err = ErrNone THEN curErr ELSE err

\* what a pooledClient.Close call returns
CloseRet(c, e, ran) ==
    [NoRet EXCEPT !.op = "Close", !.err = e, !.h = c.h, !.cli = c.cli,
                  !.pushed = c.pushed, !.tornDown = ran, !.dec = c.dec,
                  !.room = c.room, !.sawNil = c.sawNil]

\* what a ChannelClientPool.Close call returns
PoolCloseRet(c) ==
    [NoRet EXCEPT !.op = "PoolClose", !.err = c.err, !.sawNil = c.sawNil,
                  !.snap = c.snap, !.log = c.log]

\* closeClient returns e to the call that made it: pooledClient.Close
\* returns it; ChannelClientPool.Close notes it and goes round its loop,
\* where it returns when the channel it holds is empty
closeClient_returnEarly(c, e) ==
    IF c.caller = "handle"
    THEN Return(c, CloseRet(c, e, TRUE))
    ELSE Return(c, PoolCloseRet([c EXCEPT !.err = firstErr(c.err, e),
                                          !.log = Append(c.log, <<c.cli, e>>)]))
closeClient_returnWaits(c, e) ==
    IF c.caller = "handle"
    THEN Return(c, CloseRet(c, e, TRUE))
    ELSE Goto(c, [c EXCEPT !.pc = "drain", !.err = firstErr(c.err, e),
                           !.cli = Nil, !.dec = 0,
                           !.log = Append(c.log, <<c.cli, e>>)])
closeClient_return(c, e) ==
    IF c.caller = "handle"
    THEN Return(c, CloseRet(c, e, TRUE))
    ELSE LET d == [c EXCEPT !.pc = "drain", !.err = firstErr(c.err, e),
                            !.cli = Nil, !.dec = 0,
                            !.log = Append(c.log, <<c.cli, e>>)]
         IN  IF clients = <<>> THEN Return(c, PoolCloseRet(d)) ELSE Goto(c, d)

\* closeClient on the client of a pooledClient.Close whose send failed
closeClient_handle(c) ==
    /\ c.pc = "closeClient"
    /\ closeClient_dec(c.cli)
    /\ Goto(c, Reflect(c))
    /\ UNCHANGED <<cfgVars, clients, clientsNil, handles, created>>

\* closeClient: the client has no field named Transport
closeClient_missing(c) ==
    /\ c.pc = "reflect"
    /\ factoryKind = "malformed"
    /\ closeClient_return(c, ErrClientMissingTransportField)
    /\ UNCHANGED <<cfgVars, clients, clientsNil, opened, sockets, handles, created>>

\* closeClient: the client's Transport field is nil
closeClient_nilField(c) ==
    /\ c.pc = "reflect"
    /\ factoryKind = "malformed"
    /\ closeClient_return(c, ErrClientNilTransportField)
    /\ UNCHANGED <<cfgVars, clients, clientsNil, opened, sockets, handles, created>>

\* closeClient: transport.Close(), which returns nil or its own error
closeClient_Close(c) ==
    /\ c.pc = "reflect"
    /\ factoryKind = "transport"
    /\ sockets' = [sockets EXCEPT ![c.cli].open = FALSE,
                                  ![c.cli].closeCalls = @ + 1]
    /\ \E e \in {ErrNone, ErrTransportClose(c.cli)} : closeClient_return(c, e)
    /\ UNCHANGED <<cfgVars, clients, clientsNil, opened, handles, created>>

\* ------------------------------------------------------ pooledClient.Close
\* a goroutine may call Close on the handle h it holds; the handle is the
\* call's from then on
MayClose(h) ==
    /\ Free
    /\ h.closeCalls = 0
    /\ handles' = handles (-) SetToBag({h})

\* the call of closeClient(cli.Client) that ends closePooledClient: h is the
\* handle as the call leaves it, cli the client it had
CloseCall(h, cli, pushed) ==
    [NoCall EXCEPT !.pc = "closeClient",
                   !.h = [h EXCEPT !.closeCalls = @ + 1], !.cli = cli,
                   !.caller = "handle", !.sawNil = clientsNil,
                   !.room = ~clientsNil /\ Len(clients) < maxIdle,
                   !.pushed = pushed]

\* if pool.clients != nil { select { case pool.clients <- cli.Client:
\*     cli.Client = nil; default: } }
sendToPoolIgnoresNil(isNil, ch, cap, cli) ==
    LET r == chanSend(ch, cap, cli)
    IN  [ok |-> r.ok, ch |-> r.ch, cli |-> IF r.ok THEN Nil ELSE cli]
sendToPoolKeepsClient(isNil, ch, cap, cli) ==
    IF isNil THEN [ok |-> FALSE, ch |-> ch, cli |-> cli]
    ELSE LET r == chanSend(ch, cap, cli)
         IN  [ok |-> r.ok, ch |-> r.ch, cli |-> cli]
sendToPool(isNil, ch, cap, cli) ==
    IF isNil THEN [ok |-> FALSE, ch |-> ch, cli |-> cli]
    ELSE LET r == chanSend(ch, cap, cli)
         IN  [ok |-> r.ok, ch |-> r.ch, cli |-> IF r.ok THEN Nil ELSE cli]

\* closePooledClient from pool.mu.Lock() on: the send under the lock, then
\* closeClient(cli.Client), which returns nil at once for a nil client
closePooledClient_send(h) ==
    LET r == sendToPool(clientsNil, clients, maxIdle, h.Client)
        c == CloseCall([h EXCEPT !.Client = r.cli], h.Client, r.ok)
    IN  /\ clients' = r.ch
        /\ sockets' = IF r.ok /\ h.Client # Nil
                      THEN [sockets EXCEPT ![h.Client].state = "idle"]
                      ELSE sockets
        /\ IF r.cli = Nil
           THEN ReturnAtOnce(CloseRet(c, ErrNone, FALSE))
           ELSE Begin(c)
        /\ UNCHANGED <<cfgVars, clientsNil, opened, created>>

\* closePooledClient on a handle that is not marked unusable
closePooledClient_usable(h) ==
    /\ MayClose(h)
    /\ ~h.unusable
    /\ closePooledClient_send(h)

\* closePooledClient on a handle marked unusable: closeClient(cli.Client)
closePooledClient_ignoresUnusable(h) ==
    /\ MayClose(h)
    /\ h.unusable
    /\ closePooledClient_send(h)
closePooledClient_unusable(h) ==
    /\ MayClose(h)
    /\ h.unusable
    /\ LET c == CloseCall(h, h.Client, FALSE)
       IN  IF c.cli = Nil
           THEN /\ ReturnAtOnce(CloseRet(c, ErrNone, FALSE))
                /\ UNCHANGED <<opened, sockets>>
           ELSE /\ closeClient_dec(c.cli)
                /\ Begin(Reflect(c))
    /\ UNCHANGED <<cfgVars, clients, clientsNil, created>>

\* ------------------------------------------------- ChannelClientPool.Close
\* pool.mu.Lock(); clients := pool.clients; pool.clients = nil; Unlock();
\* the loop returns at once when the channel it holds is nil or empty
Close_swap ==
    /\ Free
    /\ LET c == [NoCall EXCEPT !.pc = "drain", !.caller = "pool",
                               !.sawNil = clientsNil,
                               !.snap = IF clientsNil THEN <<>> ELSE clients]
       IN  IF c.snap = <<>> THEN ReturnAtOnce(PoolCloseRet(c)) ELSE Begin(c)
    /\ clientsNil' = TRUE
    /\ UNCHANGED <<cfgVars, clients, opened, sockets, handles, created>>

\* one turn of the loop: receive a client and call closeClient
Close_drain(c) ==
    /\ c.pc = "drain"
    /\ LET r == chanRecv(FALSE, clients)
       IN  /\ r.ok
           /\ clients' = r.ch
           /\ IF r.v # Nil
              THEN /\ closeClient_dec(r.v)
                   /\ Goto(c, Reflect([c EXCEPT !.cli = r.v]))
              ELSE /\ LET d == [c EXCEPT !.log = Append(c.log, <<Nil, ErrNone>>)]
                      IN  IF r.ch = <<>> THEN Return(c, PoolCloseRet(d))
                          ELSE Goto(c, d)
                   /\ UNCHANGED <<opened, sockets>>
    /\ UNCHANGED <<cfgVars, clientsNil, handles, created>>

\* ------------------------------------------------------------------- Size
\* pool.mu.Lock(); defer pool.mu.Unlock(); return len(pool.clients)
Size ==
    /\ Free
    /\ ReturnAtOnce([NoRet EXCEPT !.op = "Size", !.sawNil = clientsNil,
                                  !.n = chanLen(clientsNil, clients)])
    /\ UNCHANGED <<cfgVars, clients, clientsNil, opened, sockets, handles, created>>

\* ------------------------------------------------------------------- Next
Next ==
    \/ Get
    \/ \E c \in Running : openClient_check(c)
    \/ \E c \in Running : openClient_dialFails(c)
    \/ \E c \in Running : openClient_dial(c)
    \/ \E c \in Running : openClient_incr(c)
    \/ \E h \in Held : MarkUnusable(h)
    \/ \E h \in Held : closePooledClient_usable(h)
    \/ \E h \in Held : closePooledClient_unusable(h)
    \/ \E c \in Running : closeClient_handle(c)
    \/ \E c \in Running : closeClient_missing(c)
    \/ \E c \in Running : closeClient_nilField(c)
    \/ \E c \in Running : closeClient_Close(c)
    \/ Close_swap
    \/ \E c \in Running : Close_drain(c)
    \/ Size

Spec == Init /\ [][Next]_vars

\* ------------------------------------------------- a handle closed twice
\* A caller that breaks the usage above: it calls Close again on the
\* pooledClient whose Close has just returned.  closePooledClient runs on the
\* handle as the first call left it: cli.Client is nil only if the first call
\* sent the client to the channel (line 154).
closePooledClient_again ==
    /\ Free
    /\ ret.op = "Close"
    /\ ret.h.closeCalls = 1
    /\ LET h == ret.h
       IN  IF h.unusable
           THEN /\ LET c == CloseCall(h, h.Client, FALSE)
                   IN  IF c.cli = Nil
                       THEN /\ ReturnAtOnce(CloseRet(c, ErrNone, FALSE))
                            /\ UNCHANGED <<opened, sockets>>
                       ELSE /\ closeClient_dec(c.cli)
                            /\ Begin(Reflect(c))
                /\ UNCHANGED <<cfgVars, clients, clientsNil, created>>
           ELSE closePooledClient_send(h)
    /\ UNCHANGED handles

NextDoubleClose ==
    \/ Next
    \/ closePooledClient_again

SpecDoubleClose == Init /\ [][NextDoubleClose]_vars

\* ------------------------------------------- the pool of src/unnamed/part_001
\* The second ChannelClientPool.  It reads pool.clients without pool.mu in
\* Close and closePooledClient (a read that races with Close's write yields
\* the channel or nil: the read and the channel operation are two steps), it
\* counts opened under pool.mu whatever maxOpen is, and its Close receives
\* from the channel with a plain, blocking receive.  The variables are those
\* of the first pool; a call's pc starts with "p1:".
part001_GetsInFlight ==
    LET gets == {c \in Running :
                    c.pc \in {"p1:recv", "p1:maxOpenReached", "p1:openClient"}}
    IN  BagCardinality([c \in gets |-> calls[c]])

\* Get: clients := pool.getClients(); nil is ErrPoolClosed
part001_Get ==
    /\ Free
    /\ created + part001_GetsInFlight < MaxHandles
    /\ IF clientsNil
       THEN ReturnAtOnce([NoRet EXCEPT !.op = "Get", !.sawNil = TRUE,
                                       !.err = ErrPoolClosed])
       ELSE Begin([NoCall EXCEPT !.pc = "p1:recv"])
    /\ UNCHANGED <<cfgVars, clients, clientsNil, opened, sockets, handles, created>>

\* Get: select { case rawCli, ok = <-clients: ... default: } on the channel
\* it read, which nothing closes; a client received is wrapped and returned
part001_Get_recv(c) ==
    /\ c.pc = "p1:recv"
    /\ LET r == chanRecv(FALSE, clients)
       IN  /\ clients' = r.ch
           /\ IF r.v # Nil
              THEN /\ handles' = handles (+) SetToBag({NewHandle(r.v)})
                   /\ created' = created + 1
                   /\ sockets' = [sockets EXCEPT ![r.v].state = "out"]
                   /\ Return(c, [NoRet EXCEPT !.op = "Get", !.h = NewHandle(r.v),
                                              !.cli = r.v, !.reused = TRUE,
                                              !.sawIdle = TRUE])
              ELSE /\ Goto(c, [c EXCEPT !.pc = "p1:maxOpenReached"])
                   /\ UNCHANGED <<handles, created, sockets>>
    /\ UNCHANGED <<cfgVars, clientsNil, opened>>

\* Get: if pool.maxOpenReached() { return nil, ErrPoolMaxOpenReached }
part001_maxOpenReached(c) ==
    /\ c.pc = "p1:maxOpenReached"
    /\ IF maxOpen # 0 /\ GeqUint32(opened, maxOpen)
       THEN Return(c, [NoRet EXCEPT !.op = "Get", !.sawFull = TRUE,
                                   !.err = ErrPoolMaxOpenReached])
       ELSE Goto(c, [c EXCEPT !.pc = "p1:openClient"])
    /\ UNCHANGED <<cfgVars, clients, clientsNil, opened, sockets, handles, created>>

\* openClient: thrift.NewTSocket or socket.Open fails
part001_openClient_dialFails(c) ==
    /\ c.pc = "p1:openClient"
    /\ Return(c, [NoRet EXCEPT !.op = "Get", !.err = ErrDial])
    /\ UNCHANGED <<cfgVars, clients, clientsNil, opened, sockets, handles, created>>

\* openClient: socket.Open succeeds; pool.opened += 1 under pool.mu; the
\* factory; Get wraps the client
part001_openClient(c) ==
    /\ c.pc = "p1:openClient"
    /\ sockets' = Append(sockets, NewSocket)
    /\ opened' = AddUint32(opened, 1)
    /\ LET h == NewHandle(Len(sockets) + 1)
       IN  /\ handles' = handles (+) SetToBag({h})
           /\ Return(c, [NoRet EXCEPT !.op = "Get", !.h = h, !.cli = h.Client,
                                      !.dialed = TRUE])
    /\ created' = created + 1
    /\ UNCHANGED <<cfgVars, clients, clientsNil>>

\* closePooledClient: an unusable handle goes to closeClient; for a usable
\* one the select reads pool.clients
part001_closePooledClient(h) ==
    /\ MayClose(h)
    /\ Begin([NoCall EXCEPT !.pc = IF h.unusable THEN "p1:reflect" ELSE "p1:send",
                            !.h = [h EXCEPT !.closeCalls = @ + 1],
                            !.cli = h.Client, !.caller = "handle",
                            !.sawNil = clientsNil])
    /\ UNCHANGED <<cfgVars, clients, clientsNil, opened, sockets, created>>

\* closePooledClient: select { case pool.clients <- cli.Client: return nil;
\* default: }; a send on a nil channel is never ready
part001_closePooledClient_send(c) ==
    /\ c.pc = "p1:send"
    /\ LET r == IF c.sawNil THEN [ok |-> FALSE, ch |-> clients]
                ELSE chanSend(clients, maxIdle, c.cli)
       IN  /\ clients' = r.ch
           /\ IF r.ok
              THEN /\ sockets' = [sockets EXCEPT ![c.cli].state = "idle"]
                   /\ Return(c, CloseRet([c EXCEPT !.pushed = TRUE], ErrNone, FALSE))
              ELSE /\ Goto(c, [c EXCEPT !.pc = "p1:reflect"])
                   /\ UNCHANGED sockets
    /\ UNCHANGED <<cfgVars, clientsNil, opened, handles, created>>

\* closeClient returns e: to pooledClient.Close, which returns it, or to the
\* loop of ChannelClientPool.Close, which goes round
part001_closeClient_return(c, e) ==
    IF c.caller = "handle"
    THEN Return(c, CloseRet(c, e, TRUE))
    ELSE Goto(c, [c EXCEPT !.pc = "p1:drain", !.err = firstErr(c.err, e),
                           !.cli = Nil, !.log = Append(c.log, <<c.cli, e>>)])

\* closeClient: the client has no field named Transport
part001_closeClient_missing(c) ==
    /\ c.pc = "p1:reflect"
    /\ factoryKind = "malformed"
    /\ part001_closeClient_return(c, ErrClientMissingTransportField)
    /\ sockets' = [sockets EXCEPT ![c.cli].state = "down"]
    /\ UNCHANGED <<cfgVars, clients, clientsNil, opened, handles, created>>

\* closeClient: the client's Transport field is nil
part001_closeClient_nilField(c) ==
    /\ c.pc = "p1:reflect"
    /\ factoryKind = "malformed"
    /\ part001_closeClient_return(c, ErrClientNilTransportField)
    /\ sockets' = [sockets EXCEPT ![c.cli].state = "down"]
    /\ UNCHANGED <<cfgVars, clients, clientsNil, opened, handles, created>>

\* closeClient: pool.opened -= 1 and transport.Close() under pool.mu
part001_closeClient_Close(c) ==
    /\ c.pc = "p1:reflect"
    /\ factoryKind = "transport"
    /\ opened' = AddUint32(opened, -1)
    /\ sockets' = [sockets EXCEPT ![c.cli].open = FALSE,
                                  ![c.cli].closeCalls = @ + 1,
                                  ![c.cli].state = "down"]
    /\ \E e \in {ErrNone, ErrTransportClose(c.cli)} :
           part001_closeClient_return(c, e)
    /\ UNCHANGED <<cfgVars, clients, clientsNil, handles, created>>

\* Close: clients := pool.clients
part001_Close ==
    /\ Free
    /\ Begin([NoCall EXCEPT !.pc = "p1:swap", !.caller = "pool",
                            !.sawNil = clientsNil])
    /\ UNCHANGED <<cfgVars, clients, clientsNil, opened, sockets, handles, created>>

\* Close: pool.clients = nil under pool.mu
part001_Close_swap(c) ==
    /\ c.pc = "p1:swap"
    /\ clientsNil' = TRUE
    /\ Goto(c, [c EXCEPT !.pc = "p1:drain"])
    /\ UNCHANGED <<cfgVars, clients, opened, sockets, handles, created>>

\* Close: rawCli, ok := <-clients, which waits until the channel holds a
\* client (for ever on a nil channel); ok is false only for a closed
\* channel, and nothing closes this one, so the loop has no way out
part001_Close_recv(c) ==
    /\ c.pc = "p1:drain"
    /\ ~c.sawNil
    /\ clients # <<>>
    /\ clients' = Tail(clients)
    /\ Goto(c, [c EXCEPT !.pc = "p1:reflect", !.cli = Head(clients)])
    /\ UNCHANGED <<cfgVars, clientsNil, opened, sockets, handles, created>>

\* Size: return len(pool.clients)
part001_Size ==
    /\ Free
    /\ ReturnAtOnce([NoRet EXCEPT !.op = "Size", !.sawNil = clientsNil,
                                  !.n = chanLen(clientsNil, clients)])
    /\ UNCHANGED <<cfgVars, clients, clientsNil, opened, sockets, handles, created>>

\* the next step of the call c of the second pool
part001_CallStep(c) ==
    \/ part001_Get_recv(c)
    \/ part001_maxOpenReached(c)
    \/ part001_openClient_dialFails(c)
    \/ part001_openClient(c)
    \/ part001_closePooledClient_send(c)
    \/ part001_closeClient_missing(c)
    \/ part001_closeClient_nilField(c)
    \/ part001_closeClient_Close(c)
    \/ part001_Close_swap(c)
    \/ part001_Close_recv(c)

NextPart001 ==
    \/ part001_Get
    \/ \E h \in Held : MarkUnusable(h)
    \/ \E h \in Held : part001_closePooledClient(h)
    \/ part001_Close
    \/ part001_Size
    \/ \E c \in Running : part001_Get_recv(c)
    \/ \E c \in Running : part001_maxOpenReached(c)
    \/ \E c \in Running : part001_openClient_dialFails(c)
    \/ \E c \in Running : part001_openClient(c)
    \/ \E c \in Running : part001_closePooledClient_send(c)
    \/ \E c \in Running : part001_closeClient_missing(c)
    \/ \E c \in Running : part001_closeClient_nilField(c)
    \/ \E c \in Running : part001_closeClient_Close(c)
    \/ \E c \in Running : part001_Close_swap(c)
    \/ \E c \in Running : part001_Close_recv(c)

\* Every goroutine that can take a step takes one in the end: dials and
\* transport closes return, pool.mu is passed on.
SpecPart001 ==
    /\ Init
    /\ [][NextPart001]_vars
    /\ WF_vars(\E c \in Running : part001_CallStep(c))

\* ============================================================ properties
Range(q) == {q[i] : i \in 1..Len(q)}

Conns == 1..Len(sockets)

\* connections dialed and not yet torn down
Alive == {c \in Conns : sockets[c].open}

\* connections returned by a pooledClient.Close and not yet taken out again
IdleConns == {c \in Conns : sockets[c].state = "idle"}

\* every ChannelClientPool.Close that began has returned, and one began
ShutDown == clientsNil /\ \A c \in Running : c.caller # "pool"

\* what one closeClient takes off opened
OneIfCounting == IF maxOpen # 0 THEN 1 ELSE 0

\* the step that made the last call return left the pool as it was
PoolUntouched ==
    /\ opened = ret.pre.opened
    /\ clients = ret.pre.clients
    /\ clientsNil = ret.pre.clientsNil
    /\ Len(sockets) = ret.pre.sockets
    /\ created = ret.pre.created

\* closeClient ran on connection c and, where the client has a transport,
\* closed it
TornDown(c) ==
    /\ sockets[c].state = "down"
    /\ c \notin Range(clients)
    /\ factoryKind = "transport" => ~sockets[c].open /\ sockets[c].closeCalls = 1

\* C1: with maxOpen = m > 0 (and clients that have a transport), at most m
\* connections are alive and opened is at most m in every reachable state.
C1_MaxOpenRespected ==
    (maxOpen > 0 /\ factoryKind = "transport") =>
        /\ Cardinality(Alive) <= maxOpen
        /\ opened >= 0
        /\ opened <= maxOpen

\* C2: the idle buffer never holds more than maxIdle clients, Size() never
\* returns more than maxIdle, and with maxIdle = 0 no connection is ever idle.
C2_IdleBounded ==
    /\ Len(clients) <= maxIdle
    /\ Cardinality(IdleConns) <= maxIdle
    /\ ret.op = "Size" => ret.n <= maxIdle
    /\ maxIdle = 0 => clients = <<>> /\ IdleConns = {}

\* a usable handle was closed into a full buffer of an open pool
C2_FullBufferSeen ==
    /\ ret.op = "Close" /\ ~ret.h.unusable /\ ret.tornDown /\ ~ret.sawNil
    /\ maxIdle > 0 /\ ~clientsNil /\ Len(clients) = maxIdle

\* C3: Close of a handle marked unusable tears its connection down (opened is
\* decremented when maxOpen != 0, the transport is closed) and does not push
\* it; a connection torn down is in no buffer and in no handle a caller holds.
C3_UnusableTornDown ==
    /\ (ret.op = "Close" /\ ret.h.unusable) =>
           /\ ret.tornDown /\ ~ret.pushed
           /\ ret.dec = OneIfCounting
           /\ ret.h.Client = ret.cli
           /\ TornDown(ret.cli)
    /\ \A c \in Conns : sockets[c].state = "down" =>
           /\ c \notin Range(clients)
           /\ \A h \in Held : h.Client # c

\* an unusable handle was closed while the open pool's buffer had room
C3_UnusableClosedWithRoom ==
    /\ ret.op = "Close" /\ ret.h.unusable /\ ret.tornDown /\ ret.room
    /\ ~clientsNil /\ Len(clients) < maxIdle

\* C4: a Get that finds the pool closed returns ErrPoolClosed and no handle,
\* dials nothing, and leaves opened, the buffer and the sockets as they were.
C4_GetAfterCloseFails ==
    (ret.op = "Get" /\ ret.sawNil) =>
        /\ ret.err = ErrPoolClosed
        /\ ret.h = NoHandle
        /\ ~ret.dialed /\ ~ret.reused
        /\ PoolUntouched

\* a Get failed with ErrPoolClosed after the pool's Close had returned
C4_GetAfterCloseSeen ==
    ret.op = "Get" /\ ret.sawNil /\ ret.err = ErrPoolClosed /\ ShutDown

\* C5: a handle Close that begins once the pool is closed tears the
\* connection down (opened decremented when maxOpen != 0), pushes it into no
\* buffer, never returns ErrPoolClosed or ErrPoolMaxOpenReached, and for a
\* client with a transport returns what transport.Close returned.
C5_CloseAfterShutdown ==
    (ret.op = "Close" /\ ret.sawNil) =>
        /\ ret.tornDown /\ ~ret.pushed
        /\ ret.dec = OneIfCounting
        /\ TornDown(ret.cli)
        /\ ret.err \notin {ErrPoolClosed, ErrPoolMaxOpenReached}
        /\ factoryKind = "transport" =>
               ret.err \in {ErrNone, ErrTransportClose(ret.cli)}

\* a usable handle got before the shutdown was closed after it, without error
C5_CloseAfterShutdownSeen ==
    /\ ret.op = "Close" /\ ret.sawNil /\ ~ret.h.unusable /\ ret.tornDown
    /\ ret.err = ErrNone /\ ShutDown

\* C6: a handle Close either pushes the client into the buffer or tears it
\* down, never both and never neither; it pushes iff, when it decides, the
\* handle is not unusable, the pool is open and the buffer has room.
C6_CloseDoesExactlyOne ==
    ret.op = "Close" =>
        /\ ret.pushed # ret.tornDown
        /\ ret.pushed <=> (~ret.h.unusable /\ ret.room)
        /\ ret.pushed =>
               /\ ret.dec = 0 /\ ret.err = ErrNone
               /\ ret.cli \in Range(clients)
               /\ sockets[ret.cli].state = "idle" /\ sockets[ret.cli].open
               /\ opened = ret.pre.opened
        /\ ret.tornDown => ret.dec = OneIfCounting /\ TornDown(ret.cli)

\* a Close pushed its client and filled the buffer
C6_PushSeen ==
    /\ ret.op = "Close" /\ ret.pushed /\ Len(clients) = maxIdle
    /\ clients[Len(clients)] = ret.cli

\* C7: a Get that finds the pool open and the buffer non-empty returns a
\* handle on a client taken from the buffer, dials nothing, leaves opened as
\* it was and the buffer one shorter, whatever opened is.
C7_GetReusesIdle ==
    (ret.op = "Get" /\ ret.sawIdle) =>
        /\ ret.err = ErrNone /\ ret.reused /\ ~ret.dialed
        /\ ret.cli \in Range(ret.pre.clients)
        /\ ret.h = NewHandle(ret.cli) /\ ret.h \in Held
        /\ Len(clients) = Len(ret.pre.clients) - 1
        /\ Range(clients) = Range(ret.pre.clients) \ {ret.cli}
        /\ opened = ret.pre.opened
        /\ Len(sockets) = ret.pre.sockets

\* a Get reused an idle client with opened at the ceiling
C7_ReuseAtCeilingSeen ==
    ret.op = "Get" /\ ret.reused /\ maxOpen # 0 /\ opened >= maxOpen

\* C8: a Get whose ceiling test runs with maxOpen != 0 and opened >= maxOpen
\* returns ErrPoolMaxOpenReached in that step, with no handle and no socket,
\* and leaves opened and the buffer as they were.
C8_CeilingFailsFast ==
    (ret.op = "Get" /\ ret.sawFull) =>
        /\ ret.err = ErrPoolMaxOpenReached
        /\ ret.h = NoHandle
        /\ ~ret.dialed /\ ~ret.reused
        /\ PoolUntouched

\* a Get on an open pool with an empty buffer failed at the ceiling
C8_CeilingSeen ==
    /\ ret.op = "Get" /\ ret.err = ErrPoolMaxOpenReached /\ ret.sawFull
    /\ ~ret.sawNil /\ ~ret.sawIdle /\ ~clientsNil

\* the error of the first teardown of log that failed, or nil
FirstFailure(log) ==
    LET bad == {i \in 1..Len(log) : log[i][2] # ErrNone}
    IN  IF bad = {} THEN ErrNone
        ELSE log[CHOOSE i \in bad : \A j \in bad : i <= j][2]

\* C9: the pool's Close calls closeClient once on every client that was in
\* the buffer at the swap, in order, whatever errors they return, and
\* returns the first error among them, or nil.
C9_CloseDrainsAll ==
    ret.op = "PoolClose" =>
        /\ [i \in 1..Len(ret.log) |-> ret.log[i][1]] = ret.snap
        /\ \A i \in 1..Len(ret.snap) : TornDown(ret.snap[i])
        /\ ret.err = FirstFailure(ret.log)

\* a Close drained two clients whose teardowns both failed
C9_DrainedPastErrorSeen ==
    /\ ret.op = "PoolClose" /\ Len(ret.log) = 2
    /\ ret.log[1][2] # ErrNone /\ ret.log[2][2] # ErrNone
    /\ ret.log[1][2] # ret.log[2][2]

\* C10 as stated: Size() returns the number of connections returned by a
\* handle Close and not yet re-acquired or drained.
C10_SizeCountsUndrained ==
    ret.op = "Size" => ret.n = Cardinality(IdleConns)

\* C10 amended: Size() returns the number of clients in the buffer the pool
\* holds: the idle connections while the pool is open, and 0 from the swap of
\* the pool's Close on, also while swapped-out clients wait to be drained.
C10_SizeIsBufferLength ==
    ret.op = "Size" =>
        /\ ret.n = (IF clientsNil THEN 0 ELSE Cardinality(IdleConns))
        /\ ~clientsNil => ret.n = Len(clients) /\ IdleConns = Range(clients)
        /\ \A h \in Held : h.Client \notin IdleConns

\* Size() returned 2 on an open pool holding two idle connections
C10_SizeTwoSeen ==
    /\ ret.op = "Size" /\ ret.n = 2 /\ Cardinality(IdleConns) = 2

\* ------------------------------------------------------------ termination
\* the next step of the call c, whatever it is
CallStep(c) ==
    \/ openClient_check(c)
    \/ openClient_dialFails(c)
    \/ openClient_dial(c)
    \/ openClient_incr(c)
    \/ closeClient_handle(c)
    \/ closeClient_missing(c)
    \/ closeClient_nilField(c)
    \/ closeClient_Close(c)
    \/ Close_drain(c)

Tracked == {c \in Running : c.tracked}

\* begin to follow one of the calls in progress; the program does nothing
Track ==
    /\ Tracked = {}
    /\ \E c \in Running :
           calls' = (calls (-) SetToBag({c}))
                        (+) SetToBag({[c EXCEPT !.tracked = TRUE]})
    /\ UNCHANGED <<cfgVars, clients, clientsNil, opened, sockets, handles,
                   created, ret>>

NextTracked ==
    \/ Next
    \/ Track

\* The goroutine of the followed call is scheduled again and again, and its
\* socket.Open and transport.Close return; nothing is asked of the others.
FairSpec ==
    /\ Init
    /\ [][NextTracked]_vars
    /\ WF_vars(\E c \in Tracked : CallStep(c))

\* C12: every call returns, given only that its own goroutine is scheduled
\* and its dial and transport close return: it waits for no other call, for
\* no handle to be closed, for no room in the buffer and for no idle client;
\* the pool's Close is never in its loop with an empty channel.
C12_EveryCallReturns ==
    /\ [](\A c \in Running : c.pc = "drain" => clients # <<>>)
    /\ (Tracked # {}) ~> (Tracked = {})

\* the pool's Close drained a client and returned while a handle was out
C12_CloseReturnedWithHandleOut ==
    ret.op = "PoolClose" /\ Len(ret.snap) > 0 /\ Held # {}

\* C11: when a handle's Close returns, the handle's Client is nil, and a
\* second Close on the handle changes nothing: it takes nothing off opened,
\* tears nothing down, closes no transport a second time and pushes nothing,
\* neither the client nor a nil entry, into the buffer.
C11_ClosedHandleIsInert ==
    ret.op = "Close" =>
        /\ ret.h.Client = Nil
        /\ ret.h.closeCalls = 2 =>
               /\ ~ret.pushed /\ ~ret.tornDown /\ ret.dec = 0
               /\ PoolUntouched
               /\ \A c \in Conns : sockets[c].closeCalls <= 1
               /\ Nil \notin Range(clients)
               /\ opened >= 0

\* a ChannelClientPool.Close is in its loop
Draining == \E c \in Running : c.caller = "pool"

\* C13: pool.clients, once nil, stays nil; from the swap on no step adds a
\* client to the channel the pool had, only the loop of the pool's Close
\* takes one out, no handle Close returns having pushed and no Get returns a
\* reused client; when the pool's Close has returned no client is left idle.
C13_SwapIsFinal ==
    /\ [][clientsNil =>
             /\ clientsNil'
             /\ Len(clients') <= Len(clients)
             /\ Range(clients') \subseteq Range(clients)
             /\ clients' # clients => Draining
             /\ ~(ret'.op = "Close" /\ ret'.pushed)
             /\ ~(ret'.op = "Get" /\ ret'.reused)]_vars
    /\ [](/\ (ret.op = "Close" /\ ret.sawNil) => ~ret.pushed
          /\ (ret.op = "Get" /\ ret.sawNil) => ~ret.reused
          /\ ShutDown => clients = <<>> /\ IdleConns = {})

\* a handle Close met the closed pool while the pool's Close was draining
C13_CloseDuringDrainSeen ==
    ret.op = "Close" /\ ret.sawNil /\ ret.tornDown /\ ~ret.h.unusable /\ Draining

\* C14 as stated: after the swap no Get returns a handle, dials a connection
\* or adds to opened, also not a Get that was past its closed-check or in its
\* dial when the pool's Close ran.
C14_NoAcquireAfterSwap ==
    (ret.op = "Get" /\ ret.pre.clientsNil) =>
        /\ ret.h = NoHandle
        /\ ~ret.dialed
        /\ opened = ret.pre.opened

\* C14 amended: a Get whose closed-check runs after the swap returns no
\* handle, dials nothing and leaves opened alone, and no such Get goes on to
\* openClient; a handle returned after the swap comes from a Get that passed
\* its closed-check before the swap, found no idle client and dialed.
C14_NoNewAcquireAfterSwap ==
    /\ (ret.op = "Get" /\ ret.sawNil) =>
           /\ ret.h = NoHandle /\ ret.err = ErrPoolClosed
           /\ ~ret.dialed
           /\ opened = ret.pre.opened
    /\ \A c \in Running : c.pc \in {"openClient", "dialed"} => ~c.sawNil
    /\ (ret.op = "Get" /\ ret.pre.clientsNil /\ ret.h # NoHandle) =>
           /\ ~ret.sawNil /\ ~ret.sawIdle
           /\ ret.dialed /\ ~ret.reused

\* a Get that was in flight at the swap returned a handle on a fresh
\* connection after the pool's Close had returned
C14_LateHandleSeen ==
    /\ ret.op = "Get" /\ ret.dialed /\ ret.h # NoHandle
    /\ ret.pre.clientsNil /\ ShutDown

\* where connection c is: how often in the channel, in how many handles that
\* callers hold, in how many calls that own it (a Get that has dialed it, a
\* handle Close that has not yet torn it down)
InBuffer(c) == Cardinality({i \in 1..Len(clients) : clients[i] = c})
InHandles(c) ==
    CopiesIn([NewHandle(c) EXCEPT !.unusable = FALSE], handles)
        + CopiesIn([NewHandle(c) EXCEPT !.unusable = TRUE], handles)
InCalls(c) ==
    LET own == {k \in Running : k.cli = c /\ k.pc \in {"dialed", "closeClient"}}
    IN  BagCardinality([k \in own |-> calls[k]])
IsDown(c) == IF sockets[c].state = "down" THEN 1 ELSE 0

\* C15: with every handle closed at most once, each connection is in exactly
\* one place: once in the buffer (idle), or in one handle or one call
\* (checked out), or torn down; Get returns only connections that are not
\* torn down, and a connection torn down stays so.
C15_OneStatePerConnection ==
    /\ [](\A c \in Conns :
            /\ InBuffer(c) + InHandles(c) + InCalls(c) + IsDown(c) = 1
            /\ sockets[c].state = "idle" <=> InBuffer(c) = 1
            /\ sockets[c].state = "out" <=> InHandles(c) + InCalls(c) = 1
            /\ sockets[c].state # "down" => sockets[c].open)
    /\ []((ret.op = "Get" /\ ret.h # NoHandle) =>
            /\ sockets[ret.cli].state = "out"
            /\ InHandles(ret.cli) = 1)
    /\ [][\A c \in Conns :
            sockets[c].state = "down" => sockets'[c].state = "down"]_vars

\* one connection idle again after use, another checked out, a handle Close
\* having just pushed
C15_IdleAndOutSeen ==
    /\ ret.op = "Close" /\ ret.pushed
    /\ \E c \in Conns : InBuffer(c) = 1
    /\ \E c \in Conns : InHandles(c) = 1

\* no Get, handle Close or pool Close is in progress
Quiescent == calls = EmptyBag

\* C16: with maxOpen != 0 and every handle closed at most once, opened is
\* never lowered from 0 (as a uint32 it never wraps to 2^32-1, which is -1
\* here), and in every quiescent state it is the number of connections not
\* torn down, which for clients with a transport are the alive ones: those
\* idle and those checked out.
C16_OpenedCountsAlive ==
    /\ [](maxOpen # 0 =>
            /\ opened >= 0
            /\ Quiescent =>
                   /\ opened = Cardinality({c \in Conns : IsDown(c) = 0})
                   /\ factoryKind = "transport" =>
                          /\ opened = Cardinality(Alive)
                          /\ Alive = IdleConns \cup {h.Client : h \in Held})
    /\ [][(maxOpen # 0 /\ opened' # opened) =>
              \/ opened' = opened + 1
              \/ opened' = opened - 1 /\ opened > 0]_vars

\* quiescent, one connection torn down (opened went back to 0) and a later
\* one alive
C16_CountAfterTeardownSeen ==
    /\ Quiescent /\ maxOpen # 0 /\ factoryKind = "transport"
    /\ opened = 1 /\ Cardinality(Alive) = 1
    /\ \E c \in Conns : ~sockets[c].open

\* C17: with maxOpen = 0 opened is 0 in every state, no teardown takes
\* anything off it, and no Get meets the ceiling or returns
\* ErrPoolMaxOpenReached.
C17_UnboundedTracksNothing ==
    maxOpen = 0 =>
        /\ opened = 0
        /\ ret.dec = 0
        /\ \A c \in Running : c.dec = 0 /\ ~c.sawFull
        /\ ~ret.sawFull
        /\ ret.err # ErrPoolMaxOpenReached

\* with maxOpen = 0, a Get dialed while another connection was checked out,
\* after a teardown
C17_DialAfterTeardownSeen ==
    /\ maxOpen = 0 /\ ret.op = "Get" /\ ret.dialed
    /\ \E c \in Conns : IsDown(c) = 1
    /\ Cardinality(Alive) >= 1

\* C18: a Get whose dial fails returns the dial error and no handle; it found
\* no idle client, and its failing step leaves opened, the buffer, the
\* sockets and the handles made as they were: no client was built and
\* nothing was added to opened.
C18_DialFailureLeavesPool ==
    (ret.op = "Get" /\ ret.err = ErrDial) =>
        /\ ret.h = NoHandle /\ ret.cli = Nil
        /\ ~ret.dialed /\ ~ret.reused
        /\ ~ret.sawNil /\ ~ret.sawIdle /\ ~ret.sawFull
        /\ PoolUntouched

\* a dial failed under a ceiling that had not been reached
C18_DialFailedBelowCeilingSeen ==
    /\ ret.op = "Get" /\ ret.err = ErrDial
    /\ maxOpen # 0 /\ opened < maxOpen /\ ~clientsNil

\* C20: when the pool's Close has returned, every handle made has been
\* closed (once) and no call is in progress, every connection dialed has been
\* torn down (closeClient ran on it; where the client has a transport, the
\* transport was closed exactly once), the buffer is empty, and opened is 0
\* when maxOpen != 0.
C20_NoLeak ==
    (ShutDown /\ Quiescent /\ handles = EmptyBag) =>
        /\ clients = <<>>
        /\ \A c \in Conns : TornDown(c)
        /\ Alive # {} => factoryKind = "malformed"
        /\ maxOpen # 0 => opened = 0

\* everything closed: two connections were dialed, and the last handle was
\* closed after the swap
C20_AllClosedSeen ==
    /\ ShutDown /\ Quiescent /\ handles = EmptyBag
    /\ Len(sockets) = 2 /\ created = 2
    /\ ret.op = "Close" /\ ret.sawNil

\* C19: in the second pool every Close that has begun returns (its loop ends
\* when the channel it swapped out is empty, also when it was empty at the
\* swap), without a further handle being closed.
C19_Part001CloseReturns ==
    Draining ~> ~Draining

====
